---- MODULE Spec2Model ----
(***************************************************************************)
(* Model of Fanta_euro.py: loading a table of predictions, scoring each    *)
(* row against the answer key, ranking the rows and reporting the result.  *)
(*                                                                         *)
(* Text is a sequence of one-character strings, so that str.strip() and    *)
(* str.upper() are computed character by character.  A table cell is a     *)
(* record [kind, val]: kind is "str" (val is the text), "int" (val is the  *)
(* decimal digits), "float" (val is the digits of an integer-valued        *)
(* float) or "nan" (a missing value).                                      *)
(***************************************************************************)
EXTENDS Integers, Sequences, FiniteSets, TLC

\* ------------------------------------------------------------------ bounds
MaxRows == 2           \* rows of the input table
MaxMatchColumns == 1   \* match columns of the input table
MaxEvents == 2         \* events of the key when one row is scored

\* ------------------------------------------------------------- text model
Whitespace == {" ", "\t"}

UpperChar(c) == IF c = "x" THEN "X" ELSE IF c = "a" THEN "A" ELSE IF c = "n" THEN "N" ELSE c

\* str.upper(): every character is replaced by its upper-case form
Upper(s) == [i \in 1..Len(s) |-> UpperChar(s[i])]

RECURSIVE LStrip(_)
LStrip(s) == IF s # <<>> /\ Head(s) \in Whitespace THEN LStrip(Tail(s)) ELSE s

RECURSIVE RStrip(_)
RStrip(s) ==
    IF s # <<>> /\ s[Len(s)] \in Whitespace THEN RStrip(SubSeq(s, 1, Len(s) - 1)) ELSE s

\* a strip that forgets the trailing whitespace
Strip_LeftOnly(s) == LStrip(s)

\* str.strip(): leading and trailing whitespace removed
Strip(s) == RStrip(LStrip(s))

StrCell(s) == [kind |-> "str", val |-> s]
IntCell(s) == [kind |-> "int", val |-> s]
FloatCell(s) == [kind |-> "float", val |-> s]
NaN == [kind |-> "nan", val |-> <<>>]

\* str(v) of Python for the values a pandas row can hold
PyStr(v) ==
    CASE v.kind = "str" -> v.val
      [] v.kind = "int" -> v.val
      [] v.kind = "float" -> v.val \o <<".", "0">>
      [] v.kind = "nan" -> <<"n", "a", "n">>

\* str(value).strip().upper()
Normalise(v) == Upper(Strip(PyStr(v)))

\* ---------------------------------------------------------- calculer_score
EventNames == <<"A-B", "C-D", "E-F", "G-H">>

InKey(K, e) == e \in DOMAIN K

\* list(bonnes_reponses.keys()): the keys in insertion order
Keys(K) == SelectSeq(EventNames, LAMBDA e : InKey(K, e))

\* a comparison of the values as they are written
MatchPoint_Raw(row, match, K) ==
    IF match \in DOMAIN row /\ match \in DOMAIN K
    THEN IF PyStr(row[match]) = PyStr(K[match]) THEN 1 ELSE 0
    ELSE 0

\* a comparison that leaves out the events whose outcome is "0"
MatchPoint_SkipPending(row, match, K) ==
    IF match \in DOMAIN row /\ match \in DOMAIN K /\ Normalise(K[match]) # <<"0">>
    THEN IF Normalise(row[match]) = Normalise(K[match]) THEN 1 ELSE 0
    ELSE 0

\* one turn of the loop of calculer_score
MatchPoint(row, match, K) ==
    IF match \in DOMAIN row /\ match \in DOMAIN K
    THEN IF Normalise(row[match]) = Normalise(K[match]) THEN 1 ELSE 0
    ELSE 0

RECURSIVE calculer_score(_, _, _)
calculer_score(row, match_columns, K) ==
    IF match_columns = <<>> THEN 0
    ELSE MatchPoint(row, Head(match_columns), K)
            + calculer_score(row, Tail(match_columns), K)

\* --------------------------------------------------------------- the input
Digits == {"0", "1", "2"}

SURNOM == "surnom"
ADRESSE == "Adresse e-mail"
EMAIL == "email"
COLLECTIF == "collectif "

Events == {EventNames[k] : k \in 1..MaxMatchColumns}

\* texts a cell of the input file holds, per column (<<>> is a blank cell)
TextsOf(c) ==
    CASE c = SURNOM -> {<<>>, <<"a", "l">>}
      [] c = ADRESSE -> {<<"m", "@">>}
      [] c = EMAIL -> {<<"n", "@">>}
      [] c = COLLECTIF -> {<<"g">>}
      [] OTHER -> {<<"1">>, <<"x">>}

MetaCols == {SURNOM, ADRESSE, EMAIL, COLLECTIF}

Absent == [present |-> FALSE, cells |-> <<>>]

\* a column of the file: absent, or one text per row
ColumnsOf(c, n) ==
    {Absent} \cup {[present |-> TRUE, cells |-> t] : t \in [1..n -> TextsOf(c)]}

\* the files of n rows: a header and one text per row and column
CsvFiles(n) ==
    { LET m == [c \in MetaCols |-> CASE c = SURNOM -> s [] c = ADRESSE -> a
                                     [] c = EMAIL -> e [] OTHER -> g]
          cols == {c \in MetaCols : m[c].present} \cup {c \in Events : ev[c].present}
      IN [n |-> n,
          cols |-> cols,
          cell |-> [c \in cols |-> IF c \in MetaCols THEN m[c].cells ELSE ev[c].cells]] :
      s \in ColumnsOf(SURNOM, n), a \in ColumnsOf(ADRESSE, n),
      e \in ColumnsOf(EMAIL, n), g \in ColumnsOf(COLLECTIF, n),
      ev \in [Events -> ColumnsOf("match", n)] }

\* a file that holds no header at all cannot be parsed
EmptyCsv == [n |-> 0, cols |-> {}, cell |-> <<>>]

\* ------------------------------------------------------------- pd.read_csv
IsIntText(t) == t # <<>> /\ \A i \in 1..Len(t) : t[i] \in Digits

\* the dtype pandas infers for a column of texts
InferDtype(texts) ==
    IF Len(texts) = 0 THEN "object"
    ELSE IF \A i \in 1..Len(texts) : IsIntText(texts[i]) THEN "int64"
    ELSE IF \A i \in 1..Len(texts) : texts[i] = <<>> \/ IsIntText(texts[i]) THEN "float64"
    ELSE "object"

\* the value of one text in a column of the given dtype; a blank is missing
ParseCell(t, dtype) ==
    IF t = <<>> THEN NaN
    ELSE CASE dtype = "int64" -> IntCell(t)
           [] dtype = "float64" -> FloatCell(t)
           [] OTHER -> StrCell(t)

read_csv(csv) ==
    [n |-> csv.n,
     cols |-> csv.cols,
     dtype |-> [c \in csv.cols |-> InferDtype(csv.cell[c])],
     cell |-> [c \in csv.cols |->
                 [i \in 1..csv.n |-> ParseCell(csv.cell[c][i], InferDtype(csv.cell[c]))]]]

NoFrame == [n |-> 0, cols |-> {}, dtype |-> <<>>, cell |-> <<>>]

\* ------------------------------------------------- DataFrame.apply(axis=1)
\* apply(axis=1) cuts the rows out of DataFrame.values, one array of one
\* dtype for the whole table: object as soon as a column holds text, else
\* float64 as soon as a column holds floats or missing values, else int64.
\* In a float64 array the integer 1 is 1.0, and str() of it is "1.0".
CommonDtype(d) ==
    IF \E c \in d.cols : d.dtype[c] = "object" THEN "object"
    ELSE IF \E c \in d.cols : d.dtype[c] = "float64" THEN "float64"
    ELSE "int64"

Upcast(v, dtype) == IF dtype = "float64" /\ v.kind = "int" THEN FloatCell(v.val) ELSE v

\* the Series that apply(axis=1) hands to the function for row i
RowOf(d, i) == [c \in d.cols |-> Upcast(d.cell[c][i], CommonDtype(d))]

\* ------------------------------------------------------ generer_classement
\* the identifier column, lines 125-128: the column 'surnom' if the table
\* has one, else 'Adresse e-mail', else 'email'.  The default '' is assigned
\* to df_scores while it has no row: the column is empty, and line 131 fills
\* it with missing values when the scores bring the index of the table.
SurnomColumn(d) ==
    IF SURNOM \in d.cols THEN d.cell[SURNOM]
    ELSE IF ADRESSE \in d.cols THEN d.cell[ADRESSE]
    ELSE IF EMAIL \in d.cols THEN d.cell[EMAIL]
    ELSE [i \in 1..d.n |-> NaN]

ScoreColumn(d, K) == [i \in 1..d.n |-> calculer_score(RowOf(d, i), Keys(K), K)]

\* df_scores before the sort
Scores(d, K) ==
    [n |-> d.n,
     has_collectif |-> COLLECTIF \in d.cols,
     Surnom |-> SurnomColumn(d),
     Score |-> ScoreColumn(d, K),
     Collectif |-> IF COLLECTIF \in d.cols THEN d.cell[COLLECTIF] ELSE <<>>]

Perms(n) == {p \in [1..n -> 1..n] : \A i, j \in 1..n : i # j => p[i] # p[j]}

\* a sort that leaves out ascending=False
SortIndexers_Ascending(score) ==
    {p \in Perms(Len(score)) :
        \A i, j \in 1..Len(score) : i < j => score[p[i]] <= score[p[j]]}

\* the orders sort_values(by='Score', ascending=False) can return: the
\* default kind is 'quicksort', which orders equal scores as it pleases
SortIndexers(score) ==
    {p \in Perms(Len(score)) :
        \A i, j \in 1..Len(score) : i < j => score[p[i]] >= score[p[j]]}

\* the rows of a column in the order of the indexer, index reset
Take(col, idx) == [i \in 1..Len(idx) |-> col[idx[i]]]

\* ranks counted from 0
Rangs_FromZero(n) == [i \in 1..n |-> i - 1]

\* range(1, len(df_classement) + 1)
Rangs(n) == [i \in 1..n |-> i]

Classement(sc, idx) ==
    [n |-> sc.n,
     has_collectif |-> sc.has_collectif,
     Rang |-> Rangs(sc.n),
     Surnom |-> Take(sc.Surnom, idx),
     Score |-> Take(sc.Score, idx),
     Collectif |-> IF sc.has_collectif THEN Take(sc.Collectif, idx) ELSE <<>>]

NoClassement ==
    [n |-> 0, has_collectif |-> FALSE, Rang |-> <<>>, Surnom |-> <<>>,
     Score |-> <<>>, Collectif |-> <<>>]

\* ----------------------------------------------------------------- to_csv
\* the text to_csv writes for a value; a missing value is written blank
CsvText(v) == IF v.kind = "nan" THEN <<>> ELSE PyStr(v)

to_csv(t) ==
    [n |-> t.n,
     has_collectif |-> t.has_collectif,
     Rang |-> t.Rang,
     Surnom |-> [i \in 1..t.n |-> CsvText(t.Surnom[i])],
     Score |-> t.Score,
     Collectif |-> IF t.has_collectif THEN [i \in 1..t.n |-> CsvText(t.Collectif[i])]
                   ELSE <<>>]

NoFile == [ecrit |-> FALSE, contenu |-> to_csv(NoClassement)]

\* ------------------------------------------------------------- statistics
RECURSIVE Sum(_)
Sum(q) == IF q = <<>> THEN 0 ELSE Head(q) + Sum(Tail(q))

SeqMax(q) == CHOOSE m \in {q[i] : i \in 1..Len(q)} : \A i \in 1..Len(q) : q[i] <= m
SeqMin(q) == CHOOSE m \in {q[i] : i \in 1..Len(q)} : \A i \in 1..Len(q) : q[i] >= m

\* the mean printed with two decimals, in hundredths (no exact tie occurs
\* below 8 rows, so rounding to nearest is the whole of the format)
Mean2(q) == (200 * Sum(q) + Len(q)) \div (2 * Len(q))

\* max, min and mean of the Score column; all are nan on an empty table
Stats(t) ==
    IF t.n = 0 THEN [nan |-> TRUE, max |-> 0, min |-> 0, moyenne |-> 0]
    ELSE [nan |-> FALSE, max |-> SeqMax(t.Score), min |-> SeqMin(t.Score),
          moyenne |-> Mean2(t.Score)]

NoStats == [nan |-> TRUE, max |-> 0 - 1, min |-> 0 - 1, moyenne |-> 0 - 1]

\* ------------------------------------------------------------------- state
VARIABLES
    pc,               \* position in main, or in the scoring of one row
    fichier,          \* the input file: [etat, csv]
    bonnes_reponses,  \* the answer key
    df,               \* the loaded table, NoFrame for None
    indexer,          \* the order chosen by sort_values
    df_classement,    \* the leaderboard
    appels,           \* the functions entered so far
    console,          \* the messages printed, in order
    ecran,            \* the table and the statistics printed
    sortie,           \* the output file
    tentatives,       \* writes of the output file attempted
    row,              \* one row given to calculer_score
    score,            \* its score
    avant             \* the score before an outcome was respelled

vars == <<pc, fichier, bonnes_reponses, df, indexer, df_classement, appels, console,
          ecran, sortie, tentatives, row, score, avant>>

pipeline == <<fichier, df, indexer, df_classement, appels, console, ecran, sortie,
              tentatives>>

harness == <<row, score, avant>>

\* the answer keys the ranking is run with
RankingCodes == {<<"1">>, <<"x">>}

AnswerKeys(events, codes) ==
    UNION {[D -> {StrCell(c) : c \in codes}] : D \in SUBSET events}

NoEcran == [classement |-> NoClassement, stats |-> NoStats]

Init ==
    /\ pc = "debut"
    /\ \/ /\ fichier \in {[etat |-> "absent", csv |-> EmptyCsv],
                          [etat |-> "illisible", csv |-> EmptyCsv]}
          /\ bonnes_reponses \in AnswerKeys(Events, {<<"1">>})
       \/ /\ \E n \in 0..MaxRows :
                fichier \in {[etat |-> "ok", csv |-> f] : f \in {g \in CsvFiles(n) : g.cols # {}}}
          /\ bonnes_reponses \in AnswerKeys(Events, RankingCodes)
    /\ df = NoFrame
    /\ indexer = <<>>
    /\ df_classement = NoClassement
    /\ appels = {}
    /\ console = <<>>
    /\ ecran = NoEcran
    /\ sortie = NoFile
    /\ tentatives = 0
    /\ row = <<>>
    /\ score = 0
    /\ avant = 0

\* a main that goes on after a failed load
Charger_NoReturn ==
    /\ pc = "debut"
    /\ appels' = appels \cup {"charger_donnees"}
    /\ IF fichier.etat = "ok"
       THEN /\ df' = read_csv(fichier.csv)
            /\ console' = console \o <<"charge">>
       ELSE /\ df' = NoFrame
            /\ console' = console \o <<IF fichier.etat = "absent" THEN "erreur_absent"
                                       ELSE "erreur_lecture">>
    /\ pc' = "charge"
    /\ UNCHANGED <<fichier, bonnes_reponses, indexer, df_classement, ecran, sortie,
                   tentatives>>
    /\ UNCHANGED harness

\* main, lines 188-190, with charger_donnees
Charger ==
    /\ pc = "debut"
    /\ appels' = appels \cup {"charger_donnees"}
    /\ IF fichier.etat = "ok"
       THEN /\ df' = read_csv(fichier.csv)
            /\ console' = console \o <<"charge">>
            /\ pc' = "charge"
       ELSE /\ df' = NoFrame
            /\ console' = console \o <<IF fichier.etat = "absent" THEN "erreur_absent"
                                       ELSE "erreur_lecture">>
            /\ pc' = "fin"
    /\ UNCHANGED <<fichier, bonnes_reponses, indexer, df_classement, ecran, sortie,
                   tentatives>>
    /\ UNCHANGED harness

\* main, line 193, with generer_classement
Generer ==
    /\ pc = "charge"
    /\ appels' = appels \cup {"generer_classement"}
    /\ \E df_scores \in {Scores(df, bonnes_reponses)} :
          \E idx \in SortIndexers(df_scores.Score) :
             /\ indexer' = idx
             /\ df_classement' = Classement(df_scores, idx)
    /\ pc' = "classe"
    /\ UNCHANGED <<fichier, bonnes_reponses, df, console, ecran, sortie, tentatives>>
    /\ UNCHANGED harness

\* main, line 196, with afficher_classement
Afficher ==
    /\ pc = "classe"
    /\ appels' = appels \cup {"afficher_classement"}
    /\ console' = console \o <<"classement">>
    /\ ecran' = [ecran EXCEPT !.classement = df_classement]
    /\ pc' = "affiche"
    /\ UNCHANGED <<fichier, bonnes_reponses, df, indexer, df_classement, sortie,
                   tentatives>>
    /\ UNCHANGED harness

\* a write whose failure is not caught and ends the run
Sauvegarder_Abort ==
    /\ pc = "affiche"
    /\ appels' = appels \cup {"sauvegarder_classement"}
    /\ tentatives' = tentatives + 1
    /\ \E ok \in BOOLEAN :
          IF ok THEN /\ sortie' = [ecrit |-> TRUE, contenu |-> to_csv(df_classement)]
                     /\ console' = console \o <<"sauvegarde">>
                     /\ pc' = "sauve"
          ELSE /\ sortie' = sortie
               /\ console' = console
               /\ pc' = "fin"
    /\ UNCHANGED <<fichier, bonnes_reponses, df, indexer, df_classement, ecran>>
    /\ UNCHANGED harness

\* main, line 199, with sauvegarder_classement: the write succeeds or raises
Sauvegarder ==
    /\ pc = "affiche"
    /\ appels' = appels \cup {"sauvegarder_classement"}
    /\ tentatives' = tentatives + 1
    /\ \E ok \in BOOLEAN :
          IF ok THEN /\ sortie' = [ecrit |-> TRUE, contenu |-> to_csv(df_classement)]
                     /\ console' = console \o <<"sauvegarde">>
          ELSE /\ sortie' = sortie
               /\ console' = console \o <<"erreur_sauvegarde">>
    /\ pc' = "sauve"
    /\ UNCHANGED <<fichier, bonnes_reponses, df, indexer, df_classement, ecran>>
    /\ UNCHANGED harness

\* main, lines 202-204
Statistiques ==
    /\ pc = "sauve"
    /\ console' = console \o <<"stats">>
    /\ ecran' = [ecran EXCEPT !.stats = Stats(df_classement)]
    /\ pc' = "fin"
    /\ UNCHANGED <<fichier, bonnes_reponses, df, indexer, df_classement, appels, sortie,
                   tentatives>>
    /\ UNCHANGED harness

Next == Charger \/ Generer \/ Afficher \/ Sauvegarder \/ Statistiques

Spec == Init /\ [][Next]_vars

\* the runs of main on the files of MaxRows rows that hold the nickname and
\* the match columns, with a key that names every match
RunInit ==
    /\ Init
    /\ DOMAIN bonnes_reponses = Events
    /\ \A e \in Events : bonnes_reponses[e] = StrCell(<<"1">>)
    /\ fichier.etat = "ok" =>
          fichier.csv.n = MaxRows /\ fichier.csv.cols = {SURNOM} \cup Events

\* main is sequential and each of its steps returns: a run goes on to its end
FairSpec == RunInit /\ [][Next]_vars /\ WF_vars(Next)

\* -------------------------------------------------- the scoring of one row
ScoreEvents == {EventNames[k] : k \in 1..MaxEvents}

\* spellings of a prediction held as text
ScoreTexts ==
    {<<"1">>, <<"x">>, <<" ", "X", " ">>, <<"\t", "x">>, <<"0">>}

\* the values a row holds for a match: a text, a number or a missing value
ScoreCells ==
    {StrCell(t) : t \in ScoreTexts} \cup {NaN, IntCell(<<"1">>), FloatCell(<<"1">>)}

\* outcomes of the key, as BONNES_REPONSES spells them or with other spacing
KeyTexts == {<<"1">>, <<"x">>, <<" ", "X">>, <<"0">>}

Rows == UNION {[D -> ScoreCells] : D \in SUBSET ScoreEvents}

CasePairs == {{"x", "X"}, {"a", "A"}, {"n", "N"}}

SameLetter(c, d) == c = d \/ {c, d} \in CasePairs

\* t spells s with other letter case or other surrounding whitespace
Respelling(s, t) ==
    \E a \in 0..Len(s), c \in 0..Len(t) :
      \E b \in 0..(Len(s) - a), d \in 0..(Len(t) - c) :
        /\ \A i \in 1..a : s[i] \in Whitespace
        /\ \A i \in (Len(s) - b + 1)..Len(s) : s[i] \in Whitespace
        /\ \A i \in 1..c : t[i] \in Whitespace
        /\ \A i \in (Len(t) - d + 1)..Len(t) : t[i] \in Whitespace
        /\ Len(s) - a - b = Len(t) - c - d
        /\ \A k \in 1..(Len(s) - a - b) : SameLetter(s[a + k], t[c + k])

ScoreInit ==
    /\ pc = "saisie"
    /\ row \in Rows
    /\ bonnes_reponses \in AnswerKeys(ScoreEvents, KeyTexts)
    /\ score = 0
    /\ avant = 0
    /\ fichier = [etat |-> "absent", csv |-> EmptyCsv]
    /\ df = NoFrame
    /\ indexer = <<>>
    /\ df_classement = NoClassement
    /\ appels = {}
    /\ console = <<>>
    /\ ecran = NoEcran
    /\ sortie = NoFile
    /\ tentatives = 0

\* calculer_score(row, list(bonnes_reponses.keys()), bonnes_reponses)
Calculer ==
    /\ pc = "saisie"
    /\ score' = calculer_score(row, Keys(bonnes_reponses), bonnes_reponses)
    /\ pc' = "note"
    /\ UNCHANGED <<row, bonnes_reponses, avant>>
    /\ UNCHANGED pipeline

\* the same row scored again with one prediction spelled otherwise
RespellerPronostic ==
    /\ pc = "note"
    /\ \E e \in DOMAIN row, t \in ScoreTexts :
          /\ row[e].kind = "str"
          /\ t # row[e].val
          /\ Respelling(row[e].val, t)
          /\ row' = [row EXCEPT ![e] = StrCell(t)]
    /\ score' = calculer_score(row', Keys(bonnes_reponses), bonnes_reponses)
    /\ avant' = score
    /\ pc' = "respelle"
    /\ UNCHANGED bonnes_reponses
    /\ UNCHANGED pipeline

\* the same row scored again with one outcome of the key spelled otherwise
RespellerReponse ==
    /\ pc = "note"
    /\ \E e \in DOMAIN bonnes_reponses, t \in ScoreTexts \cup KeyTexts :
          /\ t # bonnes_reponses[e].val
          /\ Respelling(bonnes_reponses[e].val, t)
          /\ bonnes_reponses' = [bonnes_reponses EXCEPT ![e] = StrCell(t)]
    /\ score' = calculer_score(row, Keys(bonnes_reponses'), bonnes_reponses')
    /\ avant' = score
    /\ pc' = "respelle"
    /\ UNCHANGED row
    /\ UNCHANGED pipeline

ScoreNext == Calculer \/ RespellerPronostic \/ RespellerReponse

ScoreSpec == ScoreInit /\ [][ScoreNext]_vars

\* ================================================================ properties
Classe == "generer_classement" \in appels

Note == pc \in {"note", "respelle"}

\* the events of the key the row predicts as the key has them
Correct(S, K) ==
    {e \in DOMAIN K : e \in DOMAIN S /\ Normalise(S[e]) = Normalise(K[e])}

\* C1: the score of a row is the number of events of the key that the row
\* has a column for and predicts, stripped and upper-cased, as the key does;
\* it lies in 0..|K|, is 0 when the row shares no column with the key and is
\* |K| when every event of the key is predicted correctly.
C1_ScoreIsCountOfCorrect ==
    Note =>
        /\ score = Cardinality(Correct(row, bonnes_reponses))
        /\ score \in 0..Cardinality(DOMAIN bonnes_reponses)
        /\ (DOMAIN row \cap DOMAIN bonnes_reponses = {} => score = 0)
        /\ (Correct(row, bonnes_reponses) = DOMAIN bonnes_reponses
                => score = Cardinality(DOMAIN bonnes_reponses))

C1_Witness ==
    /\ pc = "note"
    /\ Cardinality(DOMAIN bonnes_reponses) = 2
    /\ Cardinality(DOMAIN row \cap DOMAIN bonnes_reponses) = 1
    /\ score = 1

\* C2: two rows with equal scores keep their input order in the leaderboard.
C2_SortIsStable ==
    Classe =>
        \A i, j \in 1..Len(indexer) :
            (i < j /\ df_classement.Score[i] = df_classement.Score[j])
                => indexer[i] < indexer[j]

\* the identifier the fallback chain names for row i
ClaimedIdentifier(d, i) ==
    IF SURNOM \in d.cols /\ d.cell[SURNOM][i] # NaN THEN d.cell[SURNOM][i]
    ELSE IF ADRESSE \in d.cols THEN d.cell[ADRESSE][i]
    ELSE IF EMAIL \in d.cols THEN d.cell[EMAIL][i]
    ELSE StrCell(<<>>)

\* C3: the identifier of a submission is its nickname when present and not
\* null, otherwise its 'Adresse e-mail' field, otherwise its 'email' field,
\* otherwise the empty string.
C3_IdentifierFallback ==
    Classe =>
        \A k \in 1..Len(indexer) :
            df_classement.Surnom[k] = ClaimedIdentifier(df, indexer[k])

\* C4: the leaderboard has one entry per submission and its ranks, in output
\* order, are 1, 2, ..., N.
C4_RanksAreOneToN ==
    Classe =>
        /\ df_classement.n = df.n
        /\ Len(df_classement.Rang) = df.n
        /\ Len(df_classement.Surnom) = df.n
        /\ Len(df_classement.Score) = df.n
        /\ \A k \in 1..df.n : df_classement.Rang[k] = k

C4_Witness ==
    /\ Classe
    /\ df.n = MaxRows
    /\ df_classement.Score[1] = df_classement.Score[2]
    /\ df_classement.Rang[1] = 1
    /\ df_classement.Rang[2] = 2

\* C5: the scores of the leaderboard never increase from one entry to the
\* next.
C5_SortedByScoreDescending ==
    Classe =>
        \A k \in 1..(df_classement.n - 1) :
            df_classement.Score[k] >= df_classement.Score[k + 1]

C5_Witness ==
    /\ Classe
    /\ df.n >= 2
    /\ indexer[1] = 2
    /\ df_classement.Score[1] > df_classement.Score[2]

\* C6: spelling a prediction, or an outcome of the key, with other letter
\* case or other surrounding whitespace leaves the score unchanged.
C6_RespellingKeepsScore == pc = "respelle" => score = avant

C6_Witness == pc = "respelle" /\ avant >= 1 /\ score >= 1

\* C7: when the load fails nothing is ranked, shown or written; the ranking,
\* the display and the write are reached only after a successful load.
C7_NothingAfterFailedLoad ==
    /\ fichier.etat # "ok" =>
          /\ appels \subseteq {"charger_donnees"}
          /\ df_classement = NoClassement
          /\ ecran = NoEcran
          /\ sortie = NoFile
          /\ tentatives = 0
          /\ pc \in {"debut", "fin"}
    /\ appels \cap {"generer_classement", "afficher_classement",
                    "sauvegarder_classement"} # {} =>
          /\ df # NoFrame
          /\ Head(console) = "charge"

C7_Witness == pc = "fin" /\ fichier.etat = "illisible" /\ console = <<"erreur_lecture">>

\* C8: after a successful load the run ranks, shows the table, attempts the
\* write once and shows the statistics, whether or not the write succeeds;
\* a failed write changes neither the leaderboard nor what was shown.
C8_ReportAndOneWriteAttempt ==
    /\ [](pc = "fin" /\ fichier.etat = "ok" =>
            /\ Classe
            /\ console \in {<<"charge", "classement", "sauvegarde", "stats">>,
                            <<"charge", "classement", "erreur_sauvegarde", "stats">>}
            /\ ecran.classement = df_classement
            /\ tentatives = 1
            /\ ecran.stats = Stats(df_classement))
    /\ [][pc = "affiche" => /\ df_classement' = df_classement
                            /\ ecran'.classement = ecran.classement]_vars
    /\ (pc = "charge" ~> (pc = "fin" /\ tentatives = 1))

C8_Witness ==
    /\ pc = "fin"
    /\ console = <<"charge", "classement", "erreur_sauvegarde", "stats">>
    /\ ~sortie.ecrit
    /\ df_classement.n = MaxRows

\* an event whose result is pending
Pending(K) == {e \in DOMAIN K : K[e] = StrCell(<<"0">>)}

Without(K, D) == [e \in DOMAIN K \ D |-> K[e]]

\* C9: an event whose outcome in the key is "0" counts for no submission,
\* whatever the submission predicts for it.
C9_PendingNeverCounts ==
    pc = "note" =>
        score = Cardinality(Correct(row, Without(bonnes_reponses, Pending(bonnes_reponses))))

\* C9, amended: an event whose outcome in the key is "0" counts for a
\* submission exactly when its prediction, stripped, is "0" too.
C9_PendingCountsOnlyForZero ==
    pc = "note" =>
        score = Cardinality(Correct(row, Without(bonnes_reponses, Pending(bonnes_reponses))))
                + Cardinality({e \in Pending(bonnes_reponses) :
                                  e \in DOMAIN row /\ Strip(PyStr(row[e])) = <<"0">>})

C9_Witness ==
    /\ pc = "note"
    /\ score = 1
    /\ \E e \in Pending(bonnes_reponses) : e \in DOMAIN row /\ row[e] = StrCell(<<"0">>)
    /\ \E e \in Pending(bonnes_reponses) : e \in DOMAIN row /\ row[e] = StrCell(<<"1">>)

\* the dtype pandas gives a column that holds the one value v
DtypeOf(v) ==
    CASE v.kind = "str" -> "object" [] v.kind = "int" -> "int64" [] OTHER -> "float64"

\* the table that holds row i of d and nothing else
RowAlone(d, i) ==
    [n |-> 1,
     cols |-> d.cols,
     dtype |-> [c \in d.cols |-> DtypeOf(d.cell[c][i])],
     cell |-> [c \in d.cols |-> <<d.cell[c][i]>>]]

\* C10: the leaderboard is a permutation of the input rows; each entry holds
\* the identifier, the score and the group of one and the same row, and the
\* score of a row is the one it gets whatever the other rows of the table.
C10_EntriesAreScoredRows ==
    Classe =>
        /\ indexer \in Perms(df.n)
        /\ \A k \in 1..df.n :
              /\ df_classement.Surnom[k] = SurnomColumn(df)[indexer[k]]
              /\ df_classement.has_collectif = (COLLECTIF \in df.cols)
              /\ COLLECTIF \in df.cols =>
                    df_classement.Collectif[k] = df.cell[COLLECTIF][indexer[k]]
              /\ df_classement.Score[k] =
                    ScoreColumn(RowAlone(df, indexer[k]), bonnes_reponses)[1]

====
